---- MODULE Spec2Model ----
\* Trace-context propagation of machinery/v2/tracing (tracing.go).
\*
\* Representation.
\*   A header KEY is the sequence of its characters (<<"x">>), so that the
\*   letter-case folding done by net/http is computed, not assumed.
\*   A string VALUE is the sequence of its "-"-separated fields, so that the
\*   W3C traceparent "00-<trace id>-<span id>-<flags>" is a 4-field string and
\*   parsing it is a real operation that can fail.
\*   A Go interface{} value is a record [type, s, n].
\*   tasks.Headers is a record [isNil, m] (a nil map, or the map m).
\*   http.Header is a function from keys to sequences of string values.
\*   A context.Context is modelled by the span context it carries.
EXTENDS Integers, Sequences, FiniteSets, TLC

VARIABLES
    \* ---- producer side: one workflow being annotated
    tasks,        \* Headers of the member signatures (chain.Tasks / group.Tasks)
    callback,     \* chord.Callback: [isNil, Headers]
    groupUUID,    \* GroupUUID of the member signatures ("" when not grouped)
    attrs,        \* attributes set on the annotating span
    events,       \* effects of the last annotator call, in program order
    panicked,     \* the last annotator call ended in a nil dereference
    calls,        \* number of annotator calls made
    lastCall,     \* the last annotator call  [op, ctx, target]
    prevCall,     \* the call before it
    prevTasks,    \* tasks as they were when the last call started
    prevCallback, \* callback as it was when the last call started
    prevAttrs,    \* attrs as they were when the last call started
    \* ---- carrier adapter / span lifecycle, applied to drawn inputs
    pOp,          \* the function applied last
    pHeaders,     \* input tasks.Headers
    pCarrier,     \* input http.Header
    pCtx,         \* input context
    outCarrier,   \* http.Header returned
    outHeaders,   \* tasks.Headers returned
    outSpan       \* span returned

vars == <<tasks, callback, groupUUID, attrs, events, panicked, calls, lastCall,
          prevCall, prevTasks, prevCallback, prevAttrs,
          pOp, pHeaders, pCarrier, pCtx, outCarrier, outHeaders, outSpan>>

wvars == <<tasks, callback, groupUUID, attrs, events, panicked, calls, lastCall,
           prevCall, prevTasks, prevCallback, prevAttrs>>

pvars == <<pOp, pHeaders, pCarrier, pCtx, outCarrier, outHeaders, outSpan>>

\* ------------------------------------------------------------------ bounds
MaxTasks == 2      \* members of a chain / group
MaxCalls == 2      \* annotator calls in one behaviour
MaxKeys  == 2      \* entries of a drawn header map

\* ------------------------------------------------------- keys and folding
LowerLetters == <<"a", "c", "e", "n", "p", "r", "t", "x">>
UpperLetters == <<"A", "C", "E", "N", "P", "R", "T", "X">>

IsLower(c) == \E i \in 1..Len(LowerLetters) : LowerLetters[i] = c
IsUpper(c) == \E i \in 1..Len(UpperLetters) : UpperLetters[i] = c
ToUpper(c) ==
    IF IsLower(c)
    THEN UpperLetters[CHOOSE i \in 1..Len(LowerLetters) : LowerLetters[i] = c]
    ELSE c
ToLower(c) ==
    IF IsUpper(c)
    THEN LowerLetters[CHOOSE i \in 1..Len(UpperLetters) : UpperLetters[i] = c]
    ELSE c

\* net/textproto: a byte that may appear in a header field name
validHeaderFieldByte(c) == c # " "

\* net/textproto.CanonicalMIMEHeaderKey: first letter and every letter after
\* a hyphen upper case, the rest lower case; a key holding an invalid byte is
\* returned unchanged.
CanonicalMIMEHeaderKey(s) ==
    IF \E i \in 1..Len(s) : ~validHeaderFieldByte(s[i])
    THEN s
    ELSE [i \in 1..Len(s) |->
            IF i = 1 \/ s[i - 1] = "-" THEN ToUpper(s[i]) ELSE ToLower(s[i])]

\* go.opentelemetry.io/otel/propagation: const traceparentHeader = "traceparent"
traceparentHeader == <<"t", "r", "a", "c", "e", "p", "a", "r", "e", "n", "t">>
TraceparentCanon  == CanonicalMIMEHeaderKey(traceparentHeader)
TraceparentUpper  == [i \in 1..Len(traceparentHeader) |-> ToUpper(traceparentHeader[i])]

\* ----------------------------------------------------------- Go values
EmptyString == <<>>
GoString(s) == [type |-> "string", s |-> s, n |-> 0]
GoInt(n)    == [type |-> "int", s |-> EmptyString, n |-> n]

Digits == <<"0", "1", "2", "3", "4", "5", "6", "7", "8", "9">>

\* fmt.Sprint of a non-string value (one-digit integers here)
Sprint(value) ==
    IF value.type = "string" THEN value.s ELSE <<Digits[value.n + 1]>>

\* ------------------------------------------------------ span contexts
ZeroID == "0"
noSpan == [TraceID |-> ZeroID, SpanID |-> ZeroID]
SC(t, s) == [TraceID |-> t, SpanID |-> s]

\* trace.SpanContext.IsValid
IsValid(sc) == sc.TraceID # ZeroID /\ sc.SpanID # ZeroID

HexIDs == {"0", "a", "b", "c", "1", "2", "3", "9"}

\* ids the tracer's id generator hands out for a new span / a new trace
NewSpanID  == "9"
NewTraceID == "c"

SpanSC  == SC("a", "1")     \* the span passed to the annotators
OtherSC == SC("b", "2")     \* another live span
StaleSC == SC("b", "3")     \* a context left in a header map earlier

Contexts == {noSpan, SpanSC, OtherSC}

\* ================================================================ http.Header
EmptyCarrier == <<>>

\* http.Header.Set(key, value)
httpSet(h, key, value) ==
    LET k == CanonicalMIMEHeaderKey(key)
    IN  [x \in (DOMAIN h) \cup {k} |-> IF x = k THEN <<value>> ELSE h[x]]

\* http.Header.Get(key)
httpGet(h, key) ==
    LET k == CanonicalMIMEHeaderKey(key)
    IN  IF k \in DOMAIN h /\ Len(h[k]) > 0 THEN h[k][1] ELSE EmptyString

\* ================================================================ tasks.Headers
NilHeaders   == [isNil |-> TRUE, m |-> <<>>]
EmptyHeaders == [isNil |-> FALSE, m |-> <<>>]
MkHeaders(m) == [isNil |-> FALSE, m |-> m]

\* tasks.Headers.Set(key, val): dest[key] = val
HeadersSet(dest, key, val) ==
    [dest EXCEPT !.m = [x \in (DOMAIN dest.m) \cup {key} |->
                            IF x = key THEN GoString(val) ELSE dest.m[x]]]

\* The orders in which a Go `range` may visit the keys of a map
Orders(S) ==
    {o \in [1..Cardinality(S) -> S] :
        \A i, j \in 1..Cardinality(S) : i # j => o[i] # o[j]}

\* ================================================================ propagator
\* propagation.TraceContext: the traceparent string of a span context
encodeTraceparent(sc) == <<"00", sc.TraceID, sc.SpanID, "01">>

\* propagation.TraceContext.extract: parse a traceparent string
parseTraceparent(s) ==
    IF /\ Len(s) = 4
       /\ s[1] = "00"
       /\ s[2] \in HexIDs
       /\ s[3] \in HexIDs
       /\ s[4] \in {"00", "01"}
       /\ IsValid(SC(s[2], s[3]))
    THEN SC(s[2], s[3])
    ELSE noSpan

\* propagator.Inject(ctx, HeaderCarrier(h))
Inject(ctx, h) ==
    IF IsValid(ctx) THEN httpSet(h, traceparentHeader, encodeTraceparent(ctx)) ELSE h

\* propagator.Extract(ctx, HeaderCarrier(h))
Extract(ctx, h) ==
    LET sc == parseTraceparent(httpGet(h, traceparentHeader))
    IN  IF IsValid(sc) THEN sc ELSE ctx

\* tracer.Start(ctx, name, WithSpanKind(Producer))
tracerStart(ctx) ==
    IF IsValid(ctx)
    THEN [TraceID |-> ctx.TraceID, SpanID |-> NewSpanID, Parent |-> ctx,
          Kind |-> "producer", Attrs |-> {}]
    ELSE [TraceID |-> NewTraceID, SpanID |-> NewSpanID, Parent |-> noSpan,
          Kind |-> "producer", Attrs |-> {}]

MachineryTag == <<"component", "machinery">>

NoSpanRecord ==
    [TraceID |-> ZeroID, SpanID |-> ZeroID, Parent |-> noSpan,
     Kind |-> "none", Attrs |-> {}]

\* ================================================================ tracing.go
\* StartSpan(ctx, operationName)
StartSpan(ctx) == tracerStart(ctx)

\* tasksToHTTPHeader(headers), the map being visited in the given order
RECURSIVE tasksToHTTPHeaderLoop(_, _, _, _)
tasksToHTTPHeaderLoop(result, headers, order, i) ==
    IF i > Len(order)
    THEN result
    ELSE tasksToHTTPHeaderLoop(
             httpSet(result, order[i], Sprint(headers.m[order[i]])),
             headers, order, i + 1)

tasksToHTTPHeader(headers, order) ==
    tasksToHTTPHeaderLoop(EmptyCarrier, headers, order, 1)

\* every carrier tasksToHTTPHeader(headers) can return
tasksToHTTPHeaderResults(headers) ==
    {tasksToHTTPHeader(headers, o) : o \in Orders(DOMAIN headers.m)}

\* StartSpanFromHeaders(ctx, headers, operationName), headers visited in `order`
StartSpanFromHeaders(ctx, headers, order) ==
    LET extracted == Extract(ctx, tasksToHTTPHeader(headers, order))
        span      == tracerStart(extracted)
    IN  [span EXCEPT !.Attrs = @ \cup {MachineryTag}]

\* applyTaskHeaders(dest, headers), the carrier being visited in the given order
RECURSIVE applyTaskHeadersLoop(_, _, _, _)
applyTaskHeadersLoop(dest, headers, order, i) ==
    IF i > Len(order)
    THEN dest
    ELSE IF Len(headers[order[i]]) = 0
         THEN applyTaskHeadersLoop(dest, headers, order, i + 1)
         ELSE applyTaskHeadersLoop(
                  HeadersSet(dest, order[i], headers[order[i]][1]),
                  headers, order, i + 1)

\* a plausible slip: the result is always built in a fresh map
applyTaskHeaders_FreshMap(dest, headers, order) ==
    applyTaskHeadersLoop(EmptyHeaders, headers, order, 1)

applyTaskHeaders(dest, headers, order) ==
    applyTaskHeadersLoop(IF dest.isNil THEN EmptyHeaders ELSE dest, headers, order, 1)

\* a plausible slip: a header map that already carries a context is chained
\* from, i.e. gets a new child span id instead of the context passed in
HeadersWithSpan_Chained(ctx, headers) ==
    LET has  == ~headers.isNil /\ TraceparentCanon \in DOMAIN headers.m
        used == IF has /\ IsValid(ctx) THEN SC(ctx.TraceID, NewSpanID) ELSE ctx
        httpHeaders == Inject(used, EmptyCarrier)
    IN  applyTaskHeaders(headers, httpHeaders,
                         CHOOSE o \in Orders(DOMAIN httpHeaders) : TRUE)

\* HeadersWithSpan(ctx, headers)
HeadersWithSpan(ctx, headers) ==
    LET httpHeaders == Inject(ctx, EmptyCarrier)
    IN  applyTaskHeaders(headers, httpHeaders,
                         CHOOSE o \in Orders(DOMAIN httpHeaders) : TRUE)

\* ---------------------------------------------------------------- annotators
\* The annotators act on st = [tasks, callback, attrs, events, panicked]:
\* the member header maps, the callback, the span's attributes, and the log
\* of effects in program order.
NoTarget == 0 - 1
CallbackTarget == 0

Event(op, target, keys, carrier) ==
    [op |-> op, target |-> target, keys |-> keys, carrier |-> carrier]

\* span.SetAttributes(kv...)
SetAttributes(st, kv) ==
    [st EXCEPT !.attrs  = [k \in (DOMAIN kv) \cup (DOMAIN st.attrs) |->
                              IF k \in DOMAIN kv THEN kv[k] ELSE st.attrs[k]],
               !.events = Append(@, Event("SetAttributes", NoTarget, DOMAIN kv,
                                          EmptyCarrier))]

\* signature.Headers = HeadersWithSpan(ctx, signature.Headers), member i
InjectMember(st, ctx, i) ==
    [st EXCEPT !.tasks[i] = HeadersWithSpan(ctx, @),
               !.events   = Append(@, Event("HeadersWithSpan", i, {},
                                            Inject(ctx, EmptyCarrier)))]

\* chord.Callback.Headers = HeadersWithSpan(ctx, chord.Callback.Headers)
InjectCallback(st, ctx) ==
    [st EXCEPT !.callback.Headers = HeadersWithSpan(ctx, @),
               !.events = Append(@, Event("HeadersWithSpan", CallbackTarget, {},
                                          Inject(ctx, EmptyCarrier)))]

\* for _, signature := range Tasks { ... }  (a slice: visited in index order)
RECURSIVE InjectMembersFrom(_, _, _)
InjectMembersFrom(st, ctx, i) ==
    IF i > Len(st.tasks)
    THEN st
    ELSE InjectMembersFrom(InjectMember(st, ctx, i), ctx, i + 1)

Panic(st) == [st EXCEPT !.panicked = TRUE]

\* the signatures of the workflow: member i (i >= 1) or the callback (0)
CallbackRef(cb) ==
    IF cb.isNil THEN [isNil |-> TRUE, UUID |-> 0, Name |-> ""]
    ELSE [isNil |-> FALSE, UUID |-> CallbackTarget, Name |-> "callback"]

Signature(i, gid, cb) ==
    IF i = CallbackTarget
    THEN [Name |-> "callback", UUID |-> CallbackTarget, GroupUUID |-> "",
          ChordCallback |-> CallbackRef([isNil |-> TRUE])]
    ELSE [Name |-> "task", UUID |-> i, GroupUUID |-> gid,
          ChordCallback |-> CallbackRef(cb)]

\* AnnotateSpanWithSignatureInfo(span, signature)
AnnotateSpanWithSignatureInfo(st, signature) ==
    LET s1 == SetAttributes(st, [k \in {"signature.name", "signature.uuid"} |->
                  IF k = "signature.name" THEN signature.Name ELSE signature.UUID])
        s2 == IF signature.GroupUUID # ""
              THEN SetAttributes(s1, [k \in {"signature.group.uuid"} |->
                                          signature.GroupUUID])
              ELSE s1
        s3 == IF ~signature.ChordCallback.isNil
              THEN SetAttributes(s2,
                     [k \in {"signature.chord.callback.uuid",
                             "signature.chord.callback.name"} |->
                         IF k = "signature.chord.callback.uuid"
                         THEN signature.ChordCallback.UUID
                         ELSE signature.ChordCallback.Name])
              ELSE s2
    IN  s3

\* a plausible slip: each member is made the child of the member before it
RECURSIVE InjectLinkedFrom(_, _, _)
InjectLinkedFrom(st, ctx, i) ==
    IF i > Len(st.tasks)
    THEN st
    ELSE InjectLinkedFrom(
             InjectMember(st, ctx, i),
             IF IsValid(ctx) THEN SC(ctx.TraceID, NewSpanID) ELSE ctx,
             i + 1)

AnnotateSpanWithChainInfo_Linked(st, ctx) ==
    InjectLinkedFrom(
        SetAttributes(st, [k \in {"chain.tasks.length"} |-> Len(st.tasks)]),
        ctx, 1)

\* AnnotateSpanWithChainInfo(ctx, span, chain)
AnnotateSpanWithChainInfo(st, ctx) ==
    InjectMembersFrom(
        SetAttributes(st, [k \in {"chain.tasks.length"} |-> Len(st.tasks)]),
        ctx, 1)

\* AnnotateSpanWithGroupInfo(ctx, span, group, sendConcurrency)
AnnotateSpanWithGroupInfo(st, ctx, gid, sendConcurrency) ==
    LET s1 == SetAttributes(st,
                  [k \in {"group.uuid", "group.tasks.length", "group.concurrency"} |->
                      IF k = "group.uuid" THEN gid
                      ELSE IF k = "group.tasks.length" THEN Len(st.tasks)
                      ELSE sendConcurrency])
        s2 == SetAttributes(s1, [k \in {"group.tasks"} |->
                                    [i \in 1..Len(st.tasks) |-> i]])
    IN  InjectMembersFrom(s2, ctx, 1)

\* a plausible slip: the group part is annotated before the callback is touched
AnnotateSpanWithChordInfo_GroupFirst(st, ctx, gid, sendConcurrency) ==
    LET s1 == AnnotateSpanWithGroupInfo(st, ctx, gid, sendConcurrency)
    IN  IF s1.callback.isNil
        THEN Panic(s1)
        ELSE InjectCallback(
                 SetAttributes(s1, [k \in {"chord.callback.uuid"} |-> CallbackTarget]),
                 ctx)

\* a plausible slip: a nil callback is skipped and the group part still runs
AnnotateSpanWithChordInfo_NilTolerant(st, ctx, gid, sendConcurrency) ==
    AnnotateSpanWithGroupInfo(
        IF st.callback.isNil
        THEN st
        ELSE InjectCallback(
                 SetAttributes(st, [k \in {"chord.callback.uuid"} |-> CallbackTarget]),
                 ctx),
        ctx, gid, sendConcurrency)

\* AnnotateSpanWithChordInfo(ctx, span, chord, sendConcurrency)
AnnotateSpanWithChordInfo(st, ctx, gid, sendConcurrency) ==
    IF st.callback.isNil
    THEN Panic(st)      \* chord.Callback.UUID dereferences nil before any call
    ELSE AnnotateSpanWithGroupInfo(
             InjectCallback(
                 SetAttributes(st, [k \in {"chord.callback.uuid"} |-> CallbackTarget]),
                 ctx),
             ctx, gid, sendConcurrency)

\* ================================================================ workflow spec
NoAttrs == <<>>
NoCall == [op |-> "none", ctx |-> noSpan, target |-> NoTarget]
NilCallback == [isNil |-> TRUE, Headers |-> NilHeaders]

XKey == <<"x">>
YString == <<"y">>

\* header maps a signature may carry before it is annotated
WorkflowHeaders ==
    {NilHeaders,
     MkHeaders([k \in {XKey} |-> GoString(YString)]),
     MkHeaders([k \in {TraceparentUpper} |-> GoString(encodeTraceparent(StaleSC))])}

SendConcurrencies == {1}

\* the state the annotators start from
Cur == [tasks |-> tasks, callback |-> callback, attrs |-> attrs,
        events |-> <<>>, panicked |-> FALSE]

PInit ==
    /\ pOp = "none"
    /\ pHeaders = NilHeaders
    /\ pCarrier = EmptyCarrier
    /\ pCtx = noSpan
    /\ outCarrier = EmptyCarrier
    /\ outHeaders = NilHeaders
    /\ outSpan = NoSpanRecord

Init ==
    /\ \E n \in 0..MaxTasks : tasks \in [1..n -> WorkflowHeaders]
    /\ callback \in {NilCallback} \cup
                    {[isNil |-> FALSE, Headers |-> h] : h \in WorkflowHeaders}
    /\ groupUUID \in {"", "g1"}
    /\ attrs = NoAttrs
    /\ events = <<>>
    /\ panicked = FALSE
    /\ calls = 0
    /\ lastCall = NoCall
    /\ prevCall = NoCall
    /\ prevTasks = tasks
    /\ prevCallback = callback
    /\ prevAttrs = attrs
    /\ PInit

\* the effect of one annotator call on the variables
Commit(st, call) ==
    /\ calls < MaxCalls
    /\ calls' = calls + 1
    /\ tasks' = st.tasks
    /\ callback' = st.callback
    /\ attrs' = st.attrs
    /\ events' = st.events
    /\ panicked' = st.panicked
    /\ prevCall' = lastCall
    /\ lastCall' = call
    /\ prevTasks' = tasks
    /\ prevCallback' = callback
    /\ prevAttrs' = attrs
    /\ UNCHANGED groupUUID
    /\ UNCHANGED pvars

CallSignatureInfo ==
    \E i \in 0..Len(tasks) :
        /\ i = CallbackTarget => ~callback.isNil
        /\ Commit(AnnotateSpanWithSignatureInfo(Cur, Signature(i, groupUUID, callback)),
                  [op |-> "signature", ctx |-> noSpan, target |-> i])

CallChainInfo ==
    \E ctx \in Contexts :
        Commit(AnnotateSpanWithChainInfo(Cur, ctx),
               [op |-> "chain", ctx |-> ctx, target |-> NoTarget])

CallGroupInfo ==
    \E ctx \in Contexts, c \in SendConcurrencies :
        Commit(AnnotateSpanWithGroupInfo(Cur, ctx, groupUUID, c),
               [op |-> "group", ctx |-> ctx, target |-> NoTarget])

CallChordInfo ==
    \E ctx \in Contexts, c \in SendConcurrencies :
        Commit(AnnotateSpanWithChordInfo(Cur, ctx, groupUUID, c),
               [op |-> "chord", ctx |-> ctx, target |-> NoTarget])

Next ==
    \/ CallSignatureInfo
    \/ CallChainInfo
    \/ CallGroupInfo
    \/ CallChordInfo

Spec == Init /\ [][Next]_vars

\* ================================================================ adapter spec
\* The carrier adapter and the span lifecycle functions applied to inputs
\* drawn from bounded sets.
JunkString == <<"junk">>

PKeys == {traceparentHeader, TraceparentCanon, TraceparentUpper, XKey}
PValues == {GoString(encodeTraceparent(StaleSC)), GoString(JunkString), GoInt(7)}

HeaderMaps ==
    {NilHeaders} \cup
    {MkHeaders(f) : f \in UNION {[K -> PValues] :
                                   K \in {S \in SUBSET PKeys : Cardinality(S) <= MaxKeys}}}

CKeys == {TraceparentCanon, XKey}
CValues == {<<>>, <<encodeTraceparent(SpanSC)>>, <<YString, encodeTraceparent(SpanSC)>>}
Carriers == UNION {[K -> CValues] : K \in SUBSET CKeys}

\* contexts handed to the adapter functions: empty, or holding a span
AdapterContexts == {noSpan, OtherSC}

WInit ==
    /\ tasks = <<>>
    /\ callback = NilCallback
    /\ groupUUID = ""
    /\ attrs = NoAttrs
    /\ events = <<>>
    /\ panicked = FALSE
    /\ calls = 0
    /\ lastCall = NoCall
    /\ prevCall = NoCall
    /\ prevTasks = <<>>
    /\ prevCallback = NilCallback
    /\ prevAttrs = NoAttrs

InitAdapter ==
    /\ pOp = "none"
    /\ pHeaders \in HeaderMaps
    /\ pCarrier \in Carriers
    /\ pCtx \in AdapterContexts
    /\ outCarrier = EmptyCarrier
    /\ outHeaders = NilHeaders
    /\ outSpan = NoSpanRecord
    /\ WInit

Return(op, carrier, headers, span) ==
    /\ pOp' = op
    /\ outCarrier' = carrier
    /\ outHeaders' = headers
    /\ outSpan' = span
    /\ UNCHANGED <<pHeaders, pCarrier, pCtx>>
    /\ UNCHANGED wvars

CallTasksToHTTPHeader ==
    \E o \in Orders(DOMAIN pHeaders.m) :
        Return("tasksToHTTPHeader", tasksToHTTPHeader(pHeaders, o),
               NilHeaders, NoSpanRecord)

CallApplyTaskHeaders ==
    \E o \in Orders(DOMAIN pCarrier) :
        Return("applyTaskHeaders", EmptyCarrier,
               applyTaskHeaders(pHeaders, pCarrier, o), NoSpanRecord)

CallHeadersWithSpan ==
    Return("HeadersWithSpan", EmptyCarrier, HeadersWithSpan(pCtx, pHeaders),
           NoSpanRecord)

CallStartSpan ==
    Return("StartSpan", EmptyCarrier, NilHeaders, StartSpan(pCtx))

\* a consumer resumes from the drawn headers, under the drawn parent context
CallStartSpanFromHeaders ==
    \E o \in Orders(DOMAIN pHeaders.m) :
        Return("StartSpanFromHeaders", tasksToHTTPHeader(pHeaders, o), NilHeaders,
               StartSpanFromHeaders(pCtx, pHeaders, o))

\* a consumer with an empty context resumes from the headers HeadersWithSpan
\* returned
CallResumeInjected ==
    /\ pOp = "HeadersWithSpan"
    /\ \E o \in Orders(DOMAIN outHeaders.m) :
           Return("ResumeInjected", tasksToHTTPHeader(outHeaders, o), outHeaders,
                  StartSpanFromHeaders(noSpan, outHeaders, o))

NextAdapter ==
    \/ CallTasksToHTTPHeader
    \/ CallApplyTaskHeaders
    \/ CallHeadersWithSpan
    \/ CallStartSpan
    \/ CallStartSpanFromHeaders
    \/ CallResumeInjected

SpecAdapter == InitAdapter /\ [][NextAdapter]_vars

\* ================================================================ properties
\* the key under which applyTaskHeaders stores the injected traceparent
InjectedKey ==
    CHOOSE k \in DOMAIN HeadersSet(EmptyHeaders, TraceparentCanon, EmptyString).m : TRUE

\* every context a consumer can extract from a header map
Extractable(headers) ==
    {Extract(noSpan, c) : c \in tasksToHTTPHeaderResults(headers)}

\* positions of the injections of the last call, and those into the callback
Injections == {j \in 1..Len(events) : events[j].op = "HeadersWithSpan"}
CallbackInjections == {j \in Injections : events[j].target = CallbackTarget}
MemberInjections == {j \in Injections : events[j].target # CallbackTarget}

\* C1: after AnnotateSpanWithGroupInfo(ctx, span, group, c), with ctx holding
\* the valid span, every member's header map yields on extraction a context of
\* the span's trace, whatever the member's header map held before.
C1_FanOutComplete ==
    (lastCall.op = "group" /\ lastCall.ctx = SpanSC) =>
        \A i \in 1..Len(tasks) :
            \A sc \in Extractable(tasks[i]) : sc.TraceID = SpanSC.TraceID

\* C2: after AnnotateSpanWithChordInfo on a chord with a non-nil callback, the
\* callback was injected exactly once and before every member, every member
\* was injected, and the trace fields written to the callback are those
\* written to every member (so they carry the same trace id).
C2_ChordCallbackFirstSameTrace ==
    (lastCall.op = "chord" /\ ~callback.isNil) =>
        /\ ~panicked
        /\ Cardinality(CallbackInjections) = 1
        /\ \A i \in 1..Len(tasks) : \E j \in MemberInjections : events[j].target = i
        /\ \A c \in CallbackInjections, j \in MemberInjections :
               /\ c < j
               /\ events[j].carrier = events[c].carrier
        /\ IsValid(lastCall.ctx) =>
               /\ InjectedKey \in DOMAIN callback.Headers.m
               /\ \A i \in 1..Len(tasks) :
                      /\ InjectedKey \in DOMAIN tasks[i].m
                      /\ tasks[i].m[InjectedKey] = callback.Headers.m[InjectedKey]
                      /\ parseTraceparent(Sprint(tasks[i].m[InjectedKey])).TraceID
                             = lastCall.ctx.TraceID

C2_Witness ==
    /\ lastCall.op = "chord"
    /\ ~callback.isNil
    /\ Len(tasks) = MaxTasks
    /\ IsValid(lastCall.ctx)
    /\ Cardinality(MemberInjections) = MaxTasks

\* C3: injecting a valid span context C into any header map with
\* HeadersWithSpan and then resuming from the result (tasksToHTTPHeader, then
\* the propagator's extract) recovers C: same trace id, same span id.
C3_RoundTrip ==
    (pOp = "ResumeInjected" /\ IsValid(pCtx)) =>
        /\ outSpan.Parent.TraceID = pCtx.TraceID
        /\ outSpan.Parent.SpanID = pCtx.SpanID

\* C4: a chain, group or chord annotator called twice in a row with the same
\* context leaves every member's and the callback's header map as the first
\* call left it.
C4_Idempotent ==
    (/\ calls >= 2
     /\ lastCall = prevCall
     /\ lastCall.op \in {"chain", "group", "chord"}) =>
        /\ tasks = prevTasks
        /\ callback = prevCallback

C4_Witness ==
    /\ calls >= 2
    /\ lastCall = prevCall
    /\ lastCall.op = "chord"
    /\ IsValid(lastCall.ctx)
    /\ ~callback.isNil
    /\ Len(tasks) >= 1
    /\ InjectedKey \in DOMAIN tasks[1].m
    /\ tasks = prevTasks

\* C5: applyTaskHeaders(dest, carrier) returns a non-nil map that holds, for
\* every carrier entry with at least one value, the entry's first value under
\* the entry's key, and every other entry of dest unchanged; nothing else.
\* HeadersWithSpan does the same with the carrier the propagator filled.
MergeOf(dest, carrier, result) ==
    LET set == {k \in DOMAIN carrier : Len(carrier[k]) > 0}
    IN  /\ ~result.isNil
        /\ DOMAIN result.m = (DOMAIN dest.m) \cup set
        /\ \A k \in set : result.m[k] = GoString(carrier[k][1])
        /\ \A k \in (DOMAIN dest.m) \ set : result.m[k] = dest.m[k]

C5_MergeSafety ==
    /\ pOp = "applyTaskHeaders" => MergeOf(pHeaders, pCarrier, outHeaders)
    /\ pOp = "HeadersWithSpan" =>
           MergeOf(pHeaders, Inject(pCtx, EmptyCarrier), outHeaders)

C5_Witness ==
    /\ pOp = "applyTaskHeaders"
    /\ XKey \in DOMAIN pHeaders.m
    /\ TraceparentCanon \in DOMAIN pHeaders.m
    /\ DOMAIN pCarrier = CKeys
    /\ Len(pCarrier[XKey]) = 0
    /\ Len(pCarrier[TraceparentCanon]) = 2
    /\ outHeaders.m[TraceparentCanon] # pHeaders.m[TraceparentCanon]
    /\ outHeaders.m[XKey] = pHeaders.m[XKey]

\* C6: AnnotateSpanWithSignatureInfo stamps the signature's identity on the
\* span and injects the span's context into the signature's header map, so
\* that resuming from those headers gives the span as parent.
HeadersOfTarget(i) == IF i = CallbackTarget THEN callback.Headers ELSE tasks[i]

C6_SignatureInjects ==
    lastCall.op = "signature" =>
        /\ "signature.name" \in DOMAIN attrs
        /\ "signature.uuid" \in DOMAIN attrs
        /\ \A sc \in Extractable(HeadersOfTarget(lastCall.target)) : sc = SpanSC

\* C7: StartSpanFromHeaders(parentContext, headers, name): when the headers
\* hold a valid upstream context the new span is its child; otherwise the new
\* span has the parent and trace StartSpan(parentContext, name) gives it.
UpstreamsIn(headers) ==
    {sc \in {parseTraceparent(Sprint(headers.m[k])) :
                k \in {x \in DOMAIN headers.m :
                          CanonicalMIMEHeaderKey(x) = TraceparentCanon}} :
        IsValid(sc)}

C7_ResumePolicy ==
    pOp = "StartSpanFromHeaders" =>
        IF UpstreamsIn(pHeaders) # {}
        THEN /\ outSpan.Parent \in UpstreamsIn(pHeaders)
             /\ outSpan.TraceID = outSpan.Parent.TraceID
        ELSE /\ outSpan.Parent = StartSpan(pCtx).Parent
             /\ outSpan.TraceID = StartSpan(pCtx).TraceID

\* C8: AnnotateSpanWithChainInfo records the number of members and injects
\* the context passed to the call, and no other, into every member in
\* sequence order; afterwards all members carry the same injected field.
C8_ChainSiblings ==
    lastCall.op = "chain" =>
        /\ attrs["chain.tasks.length"] = Len(tasks)
        /\ Cardinality(Injections) = Len(tasks)
        /\ \A j \in Injections :
               /\ events[j].target = j - 1
               /\ events[j].carrier = Inject(lastCall.ctx, EmptyCarrier)
        /\ IsValid(lastCall.ctx) =>
               \A i \in 1..Len(tasks) :
                   /\ InjectedKey \in DOMAIN tasks[i].m
                   /\ tasks[i].m[InjectedKey]
                          = GoString(encodeTraceparent(lastCall.ctx))

C8_Witness ==
    /\ lastCall.op = "chain"
    /\ Len(tasks) = MaxTasks
    /\ IsValid(lastCall.ctx)
    /\ tasks # prevTasks

\* C9: the carrier tasksToHTTPHeader returns is determined by the header map
\* alone, whatever the order its entries are visited in, and holds one
\* single-valued entry per header-map key: the string, or the formatted text.
C9_CarrierDeterministic ==
    pOp = "tasksToHTTPHeader" =>
        /\ Cardinality(tasksToHTTPHeaderResults(pHeaders)) = 1
        /\ Cardinality(DOMAIN outCarrier) = Cardinality(DOMAIN pHeaders.m)
        /\ \A k \in DOMAIN pHeaders.m :
               httpGet(outCarrier, k) = Sprint(pHeaders.m[k])

\* C10: AnnotateSpanWithChordInfo on a chord whose callback is nil fails with
\* a nil dereference before it has any effect: no attribute is set and no
\* header map is changed.
C10_NilCallbackFailsFirst ==
    (lastCall.op = "chord" /\ callback.isNil) =>
        /\ panicked
        /\ events = <<>>
        /\ attrs = prevAttrs
        /\ tasks = prevTasks
        /\ callback = prevCallback

C10_Witness ==
    /\ lastCall.op = "chord"
    /\ callback.isNil
    /\ panicked
    /\ Len(tasks) = MaxTasks
    /\ IsValid(lastCall.ctx)

====
